---- MODULE Spec2Model ----
(***************************************************************************)
(* Model of ContentSplitter (content-splitter.ts): the sanitizer           *)
(* cleanContentForDiscord, the link resolver, the atomic decomposition,    *)
(* the oversize splitters, the recombination packer and the delivery of    *)
(* the chunks to a thread; and of GuildService (guildservice.ts).          *)
(*                                                                         *)
(* A string is a sequence of one-character strings; an index i of the      *)
(* source (0-based) is index i + 1 here.                                   *)
(***************************************************************************)
EXTENDS Integers, Sequences, FiniteSets, TLC

VARIABLES
    content,    \* the Markdown text handed to splitContent / the sanitizer
    cleaned,    \* cleanContentForDiscord(content)
    recleaned,  \* cleanContentForDiscord(cleaned)
    atoms,      \* result of splitIntoAtomicChunks(cleaned)
    chunks,     \* result of optimalRecombine(atoms): what splitContent returns
    pc,         \* position in the pipeline
    sourceUrl,  \* the sourceUrl argument: <<>> (absent) or <<url>>
    resolved,   \* resolveRelativeLinks(content, sourceUrl)
    stack,      \* the active calls of sendChunksToThread, innermost last
    inFlight,   \* the thread.send call awaited now: <<>> or <<call>>
    log,        \* the thread.send calls that have settled, in order
    outcome,    \* splitAndSendContent: "none", "running", "returned", "threw"
    failures,   \* number of transport failures so far
    guildMap,   \* GuildService.guildMap: guild id -> Guild instance
    calls,      \* the calls of GuildService.getGuild
    nextGuild,  \* the Guild instances constructed so far
    remainingText, \* splitByCharacterCount: `remaining`, the text still to split
    pinned,     \* PinResponse.run: <<>> or <<size of the fetched collection>>
    channelPins \* number of messages pinned in the channel

splitVars == <<content, cleaned, recleaned, atoms, chunks>>
urlVars == <<sourceUrl, resolved>>
sendVars == <<stack, inFlight, log, outcome, failures>>
guildVars == <<guildMap, calls, nextGuild>>
charVars == <<remainingText>>
pinVars == <<pinned, channelPins>>

vars == <<splitVars, pc, urlVars, sendVars, guildVars, charVars, pinVars>>

\* the parts of the state a specification does not use keep these values
UrlIdle == sourceUrl = <<>> /\ resolved = <<>>
SendIdle ==
    stack = <<>> /\ inFlight = <<>> /\ log = <<>> /\ outcome = "none" /\ failures = 0
GuildIdle == guildMap = <<>> /\ calls = <<>> /\ nextGuild = 0
CharIdle == remainingText = <<>>
PinIdle == pinned = <<>> /\ channelPins = {}

(***************************************************************************)
(* Program constants.                                                      *)
(***************************************************************************)
MAX_CHUNK_SIZE == 2000
MAX_CODE_BLOCK_SIZE == 1900
\* lower end of the break-point search of splitByCharacterCount (i > maxSize * 0.7)
BREAK_WINDOW_FLOOR == (MAX_CHUNK_SIZE * 7) \div 10
\* number of spaces between the two "~~" of the horizontal-rule placeholder
RULE_PLACEHOLDER_SPACES == 49

(***************************************************************************)
(* Bounds of the model.                                                    *)
(***************************************************************************)
MaxLines == 3        \* lines per document of the splitter specification
MaxCleanLines == 4   \* lines per document of the sanitizer specification

(***************************************************************************)
(* String primitives (String.prototype.* of the source).                   *)
(***************************************************************************)
Rep(c, k) == [i \in 1..k |-> c]

MinOf(S) == CHOOSE x \in S : \A y \in S : x <= y
MaxOf(S) == CHOOSE x \in S : \A y \in S : y <= x

\* the positions of s that hold a character of C
Pos(s, C) == {i \in 1..Len(s) : s[i] \in C}

\* the no-break space U+00A0 (one character)
NBSP == "NBSP"

\* \s of the regular expressions and the whitespace of trim(): space, tab,
\* newline and, of the further characters both cover, the no-break space
WHITESPACE == {" ", "\t", "\n", NBSP}
IsSpace(c) == c \in WHITESPACE

\* first index >= i of s that holds no whitespace (Len(s) + 1 when none)
RECURSIVE SkipSpaceFwd(_, _)
SkipSpaceFwd(s, i) ==
    IF i > Len(s) \/ ~IsSpace(s[i]) THEN i ELSE SkipSpaceFwd(s, i + 1)

\* last index <= i of s that holds no whitespace (0 when none)
RECURSIVE SkipSpaceBack(_, _)
SkipSpaceBack(s, i) ==
    IF i < 1 \/ ~IsSpace(s[i]) THEN i ELSE SkipSpaceBack(s, i - 1)

\* s.trim()
trim(s) ==
    LET a == SkipSpaceFwd(s, 1)
    IN  IF a > Len(s) THEN <<>> ELSE SubSeq(s, a, SkipSpaceBack(s, Len(s)))

\* s.startsWith(p)
startsWith(s, p) == Len(s) >= Len(p) /\ SubSeq(s, 1, Len(p)) = p

\* s cut at the positions P (each position is dropped), in order
RECURSIVE SplitFrom(_, _, _)
SplitFrom(s, start, P) ==
    IF P = {} THEN <<SubSeq(s, start, Len(s))>>
    ELSE LET p == MinOf(P)
         IN  <<SubSeq(s, start, p - 1)>> \o SplitFrom(s, p + 1, P \ {p})

\* s.split('\n')
splitLines(s) == SplitFrom(s, 1, Pos(s, {"\n"}))

\* parts.join(sep)
RECURSIVE join(_, _)
join(parts, sep) ==
    IF parts = <<>> THEN <<>>
    ELSE IF Len(parts) = 1 THEN parts[1]
    ELSE parts[1] \o sep \o join(Tail(parts), sep)

\* s without the characters at the positions D
RECURSIVE RemoveFrom(_, _, _)
RemoveFrom(s, start, D) ==
    IF D = {} THEN SubSeq(s, start, Len(s))
    ELSE LET d == MinOf(D)
         IN  SubSeq(s, start, d - 1) \o RemoveFrom(s, d + 1, D \ {d})

NL == <<"\n">>
\* the backtick character (the lexer of TLA+ admits no backtick in a string)
BT == "BACKTICK"
FENCE == <<BT, BT, BT>>

(***************************************************************************)
(* cleanContentForDiscord                                                  *)
(***************************************************************************)
LineStart(s, p) == p = 1 \/ s[p - 1] = "\n"

Dash3At(s, p) ==
    p >= 1 /\ p + 2 <= Len(s) /\ s[p] = "-" /\ s[p + 1] = "-" /\ s[p + 2] = "-"

\* The match of /^---\s*\n[\s\S]*?\n---\s*\n?/m that starts at p: the index of
\* its last character, 0 when the expression does not match at p.
\*   ---\s*\n   the whitespace run after the dashes must hold a newline; the
\*              greedy \s* first stops before the last newline q of the run
\*   [\s\S]*?   lazy: the closing "\n---" is the first one after q; when
\*              there is none, \s* backtracks to an earlier newline of the
\*              run and the closing newline can only be q itself
\*   \s*\n?     the greedy \s* takes the whole whitespace run after the
\*              closing dashes
FrontmatterEnd(s, p) ==
    IF ~(LineStart(s, p) /\ Dash3At(s, p)) THEN 0
    ELSE LET e == SkipSpaceFwd(s, p + 3) - 1
             nlw == {i \in (p + 3)..e : s[i] = "\n"}
         IN  IF nlw = {} THEN 0
             ELSE LET q == MaxOf(nlw)
                      later == {r \in Pos(s, {"\n"}) : r > q /\ Dash3At(s, r + 1)}
                      r == IF later # {} THEN MinOf(later)
                           ELSE IF nlw # {q} /\ Dash3At(s, q + 1) THEN q
                           ELSE 0
                  IN  IF r = 0 THEN 0 ELSE SkipSpaceFwd(s, r + 4) - 1

\* cleaned.replace(/^---\s*\n[\s\S]*?\n---\s*\n?/m, ''): the leftmost match
removeFrontmatter(s) ==
    LET starts == {p \in Pos(s, {"-"}) : FrontmatterEnd(s, p) > 0}
    IN  IF starts = {} THEN s
        ELSE LET p == MinOf(starts)
             IN  SubSeq(s, 1, p - 1) \o SubSeq(s, FrontmatterEnd(s, p) + 1, Len(s))

RULE_LINE == <<"*", " ", "*", " ", "*">>
RULE_PLACEHOLDER == <<"~", "~">> \o Rep(" ", RULE_PLACEHOLDER_SPACES) \o <<"~", "~">>

\* cleaned.replace(/^\* \* \*$/gm, '~~ ... ~~')
replaceRules(s) ==
    LET ls == splitLines(s)
    IN  join([i \in 1..Len(ls) |-> IF ls[i] = RULE_LINE THEN RULE_PLACEHOLDER ELSE ls[i]],
             NL)

\* .replace(/\n{3,}/g, '\n\n'): of a run of newlines the first two are kept
collapseNewlines(s) ==
    RemoveFrom(s, 1, {i \in Pos(s, {"\n"}) : i >= 3 /\ s[i - 1] = "\n" /\ s[i - 2] = "\n"})

\* last index <= i of line l that holds neither a space nor a tab
RECURSIVE SkipBlankBack(_, _)
SkipBlankBack(l, i) ==
    IF i < 1 \/ l[i] \notin {" ", "\t"} THEN i ELSE SkipBlankBack(l, i - 1)

\* .replace(/[ \t]+$/gm, '')
stripTrailing(s) ==
    LET ls == splitLines(s)
    IN  join([i \in 1..Len(ls) |-> SubSeq(ls[i], 1, SkipBlankBack(ls[i], Len(ls[i])))], NL)

cleanContentForDiscord(c) ==
    trim(stripTrailing(collapseNewlines(replaceRules(removeFrontmatter(c)))))

(***************************************************************************)
(* Documents: lines drawn from a set of line kinds, joined by newlines.    *)
(***************************************************************************)
DocsOf(kinds, n) ==
    {join(ls, NL) : ls \in UNION {[1..k -> kinds] : k \in 1..n}}

CleanLineKinds ==
    { <<>>,
      <<" ">>,
      <<"a">>,
      <<"a", " ", "\t">>,
      <<"-", "-", "-">>,
      <<"-", "-", "-", " ">>,
      RULE_LINE }

CleanDocs == DocsOf(CleanLineKinds, MaxCleanLines)

(***************************************************************************)
(* Chunks.  language is <<>> when the chunk carries none (undefined) and   *)
(* <<l>> when it carries the language l (which may be the empty string).   *)
(***************************************************************************)
ContentChunk(t, c, l) == [type |-> t, content |-> c, language |-> l]
Paragraph(c) == ContentChunk("paragraph", c, <<>>)

\* number of matches of /```/g in s (matches do not overlap), B the backtick
\* positions of s still to be scanned
RECURSIVE FenceMatches(_)
FenceMatches(B) ==
    IF B = {} THEN 0
    ELSE LET p == MinOf(B)
         IN  IF p + 1 \in B /\ p + 2 \in B
             THEN 1 + FenceMatches(B \ {p, p + 1, p + 2})
             ELSE FenceMatches(B \ {p})

FenceCount(s) == FenceMatches(Pos(s, {BT}))

hasMatchedCodeBlocks(c) == FenceCount(c) % 2 = 0

(***************************************************************************)
(* splitByCharacterCount                                                   *)
(***************************************************************************)
BREAK_CHARS == {" ", "\n", ".", "!"}

\* splitByCharacterCount with the character at the break point dropped
\* (remaining.substring(breakPoint + 1))
RECURSIVE CharacterPieces_DropBreakChar(_)
CharacterPieces_DropBreakChar(remaining) ==
    IF Len(remaining) <= MAX_CHUNK_SIZE
    THEN IF Len(remaining) > 0 THEN <<Paragraph(remaining)>> ELSE <<>>
    ELSE LET found == {i \in (BREAK_WINDOW_FLOOR + 1)..MAX_CHUNK_SIZE :
                           remaining[i + 1] \in BREAK_CHARS}
             breakPoint == IF found = {} THEN MAX_CHUNK_SIZE ELSE MaxOf(found)
             chunkContent == trim(SubSeq(remaining, 1, breakPoint))
         IN  (IF Len(chunkContent) > 0 THEN <<Paragraph(chunkContent)>> ELSE <<>>)
                 \o CharacterPieces_DropBreakChar(
                        trim(SubSeq(remaining, breakPoint + 2, Len(remaining))))

\* the while loop over `remaining` and the push of the rest after it
RECURSIVE CharacterPieces(_)
CharacterPieces(remaining) ==
    IF Len(remaining) <= MAX_CHUNK_SIZE
    THEN IF Len(remaining) > 0 THEN <<Paragraph(remaining)>> ELSE <<>>
    ELSE LET found == {i \in (BREAK_WINDOW_FLOOR + 1)..MAX_CHUNK_SIZE :
                           remaining[i + 1] \in BREAK_CHARS}
             breakPoint == IF found = {} THEN MAX_CHUNK_SIZE ELSE MaxOf(found)
             chunkContent == trim(SubSeq(remaining, 1, breakPoint))
             piece == IF Len(chunkContent) > 0 /\ Len(chunkContent) <= MAX_CHUNK_SIZE
                      THEN <<Paragraph(chunkContent)>>
                      ELSE IF Len(chunkContent) > MAX_CHUNK_SIZE
                      THEN <<Paragraph(SubSeq(remaining, 1, MAX_CHUNK_SIZE))>>
                      ELSE <<>>
         IN  piece \o CharacterPieces(trim(SubSeq(remaining, breakPoint + 1, Len(remaining))))

splitByCharacterCount(chunk) == CharacterPieces(chunk.content)

(***************************************************************************)
(* splitTextBySentences, trySplitBySentences                               *)
(***************************************************************************)
UPPER ==
    {"A", "B", "C", "D", "E", "F", "G", "H", "I", "J", "K", "L", "M",
     "N", "O", "P", "Q", "R", "S", "T", "U", "V", "W", "X", "Y", "Z"}

\* the pieces of text between the matches that start at the positions M, a
\* match being a whole run of whitespace
RECURSIVE SentencesFrom(_, _, _)
SentencesFrom(text, start, M) ==
    IF M = {} THEN <<SubSeq(text, start, Len(text))>>
    ELSE LET a == MinOf(M)
         IN  <<SubSeq(text, start, a - 1)>>
                 \o SentencesFrom(text, SkipSpaceFwd(text, a), M \ {a})

\* text.split(/(?<=[.!?])\s+(?=[A-Z])/).filter(s => s.trim().length > 0)
splitTextBySentences(text) ==
    LET M == {a \in Pos(text, WHITESPACE) :
                  /\ a > 1
                  /\ text[a - 1] \in {".", "!", "?"}
                  /\ LET b == SkipSpaceFwd(text, a)
                     IN  b <= Len(text) /\ text[b] \in UPPER}
    IN  SelectSeq(SentencesFrom(text, 1, M), LAMBDA x : Len(trim(x)) > 0)

\* the loop of trySplitBySentences over sentences[k..]: the pieces pushed to
\* `result` from there on, currentChunk being cur
RECURSIVE SentenceLoop(_, _, _)
SentenceLoop(sentences, k, cur) ==
    IF k > Len(sentences)
    THEN IF cur = <<>> THEN <<>>
         ELSE IF Len(cur) > MAX_CHUNK_SIZE THEN splitByCharacterCount(Paragraph(cur))
         ELSE <<Paragraph(trim(cur))>>
    ELSE LET sentence == sentences[k]
             testChunk == cur \o (IF cur # <<>> THEN <<" ">> ELSE <<>>) \o sentence
         IN  IF Len(testChunk) <= MAX_CHUNK_SIZE
             THEN SentenceLoop(sentences, k + 1, testChunk)
             ELSE (IF cur # <<>> THEN <<Paragraph(trim(cur))>> ELSE <<>>)
                  \o (IF Len(sentence) > MAX_CHUNK_SIZE
                      THEN splitByCharacterCount(Paragraph(sentence))
                               \o SentenceLoop(sentences, k + 1, <<>>)
                      ELSE SentenceLoop(sentences, k + 1, sentence))

\* trySplitBySentences without the validation of the fence markers
trySplitBySentences_NoFenceValidation(chunk) ==
    LET sentences == splitTextBySentences(chunk.content)
    IN  IF Len(sentences) <= 1 THEN <<chunk>>
        ELSE LET result == SentenceLoop(sentences, 1, <<>>)
             IN  IF Len(result) > 0 THEN result ELSE <<chunk>>

trySplitBySentences(chunk) ==
    LET sentences == splitTextBySentences(chunk.content)
    IN  IF Len(sentences) <= 1 THEN <<chunk>>
        ELSE LET result == SentenceLoop(sentences, 1, <<>>)
             IN  IF \E i \in 1..Len(result) : ~hasMatchedCodeBlocks(result[i].content)
                 THEN <<chunk>>
                 ELSE IF Len(result) > 0 THEN result ELSE <<chunk>>

(***************************************************************************)
(* splitLargeCodeBlock                                                     *)
(***************************************************************************)
\* chunk.language || ''
LanguageOrEmpty(chunk) ==
    IF chunk.language = <<>> THEN <<<<>>>> ELSE chunk.language

\* the loop of splitLargeCodeBlock over lines[k..], currentChunk being cur
RECURSIVE CodeLineLoop(_, _, _, _)
CodeLineLoop(lines, k, cur, lang) ==
    IF k > Len(lines)
    THEN IF cur # <<>> THEN <<ContentChunk("code", cur, lang)>> ELSE <<>>
    ELSE LET line == lines[k]
             testChunk == cur \o (IF cur # <<>> THEN NL ELSE <<>>) \o line
         IN  IF Len(testChunk) > MAX_CODE_BLOCK_SIZE /\ cur # <<>>
             THEN <<ContentChunk("code", cur, lang)>> \o CodeLineLoop(lines, k + 1, line, lang)
             ELSE CodeLineLoop(lines, k + 1, testChunk, lang)

splitLargeCodeBlock(chunk) ==
    IF chunk.type # "code" THEN <<chunk>>
    ELSE CodeLineLoop(splitLines(chunk.content), 1, <<>>, LanguageOrEmpty(chunk))

(***************************************************************************)
(* ensureAtomicChunkSize                                                   *)
(***************************************************************************)
ensureAtomicChunkSize(chunk) ==
    IF Len(chunk.content) <= MAX_CHUNK_SIZE THEN <<chunk>>
    ELSE IF chunk.type = "code" THEN splitLargeCodeBlock(chunk)
    ELSE LET sentenceChunks == trySplitBySentences(chunk)
         IN  IF /\ Len(sentenceChunks) > 1
                /\ \A i \in 1..Len(sentenceChunks) :
                       Len(sentenceChunks[i].content) <= MAX_CHUNK_SIZE
             THEN sentenceChunks
             ELSE splitByCharacterCount(chunk)

(***************************************************************************)
(* splitTextIntoAtomicChunks                                               *)
(***************************************************************************)
\* number of "#" that line l starts with, counted from index i
RECURSIVE HashRun(_, _)
HashRun(l, i) == IF i <= Len(l) /\ l[i] = "#" THEN 1 + HashRun(l, i + 1) ELSE 0

\* /^#{1,6}\s/.test(l)
IsHeaderLine(l) ==
    LET h == HashRun(l, 1)
    IN  h >= 1 /\ h <= 6 /\ Len(l) > h /\ IsSpace(l[h + 1])

isMajorStructuralBreak(c) ==
    LET lines == splitLines(trim(c))
    IN  IsHeaderLine(trim(lines[Len(lines)]))

\* line.trim().startsWith('```')
IsFenceLine(line) == startsWith(trim(line), FENCE)

\* splitTextIntoAtomicChunks without the flush of the text before an opening
\* fence line: the code block is appended to the paragraph buffer
RECURSIVE AtomLineLoop_NoFlushAtFence(_, _, _)
AtomLineLoop_NoFlushAtFence(lines, k, st) ==
    IF k > Len(lines)
    THEN IF trim(st.currentChunk) # <<>>
         THEN st.chunks \o ensureAtomicChunkSize(
                  ContentChunk(IF st.inCodeBlock THEN "code" ELSE "paragraph",
                               trim(st.currentChunk),
                               IF st.inCodeBlock THEN <<st.codeBlockLanguage>> ELSE <<>>))
         ELSE st.chunks
    ELSE LET line == lines[k]
         IN  IF IsFenceLine(line)
             THEN IF st.inCodeBlock
                  THEN \* end of code block
                       AtomLineLoop_NoFlushAtFence(lines, k + 1,
                           [chunks |-> st.chunks \o ensureAtomicChunkSize(
                                ContentChunk("code", trim(st.currentChunk \o line \o NL),
                                             <<st.codeBlockLanguage>>)),
                            currentChunk |-> <<>>,
                            inCodeBlock |-> FALSE,
                            codeBlockLanguage |-> <<>>])
                  ELSE \* start a code block
                       AtomLineLoop_NoFlushAtFence(lines, k + 1,
                           [chunks |-> st.chunks,
                            currentChunk |-> st.currentChunk \o line \o NL,
                            inCodeBlock |-> TRUE,
                            codeBlockLanguage |-> SubSeq(trim(line), 4, Len(trim(line)))])
             ELSE LET cur == st.currentChunk \o line \o NL
                      trimmedChunk == trim(cur)
                  IN  IF /\ ~st.inCodeBlock
                         /\ trim(line) = <<>>
                         /\ trimmedChunk # <<>>
                         /\ isMajorStructuralBreak(trimmedChunk)
                      THEN AtomLineLoop_NoFlushAtFence(lines, k + 1,
                               [st EXCEPT !.chunks = @ \o ensureAtomicChunkSize(
                                                          Paragraph(trimmedChunk)),
                                          !.currentChunk = <<>>])
                      ELSE AtomLineLoop_NoFlushAtFence(lines, k + 1, [st EXCEPT !.currentChunk = cur])

\* the for loop of splitTextIntoAtomicChunks over lines[k..] and the final
\* flush; st holds the loop's variables chunks, currentChunk, inCodeBlock,
\* codeBlockLanguage
RECURSIVE AtomLineLoop(_, _, _)
AtomLineLoop(lines, k, st) ==
    IF k > Len(lines)
    THEN IF trim(st.currentChunk) # <<>>
         THEN st.chunks \o ensureAtomicChunkSize(
                  ContentChunk(IF st.inCodeBlock THEN "code" ELSE "paragraph",
                               trim(st.currentChunk),
                               IF st.inCodeBlock THEN <<st.codeBlockLanguage>> ELSE <<>>))
         ELSE st.chunks
    ELSE LET line == lines[k]
         IN  IF IsFenceLine(line)
             THEN IF st.inCodeBlock
                  THEN \* end of code block
                       AtomLineLoop(lines, k + 1,
                           [chunks |-> st.chunks \o ensureAtomicChunkSize(
                                ContentChunk("code", trim(st.currentChunk \o line \o NL),
                                             <<st.codeBlockLanguage>>)),
                            currentChunk |-> <<>>,
                            inCodeBlock |-> FALSE,
                            codeBlockLanguage |-> <<>>])
                  ELSE \* flush the text so far as a paragraph, start a code block
                       AtomLineLoop(lines, k + 1,
                           [chunks |-> IF trim(st.currentChunk) # <<>>
                                       THEN st.chunks \o ensureAtomicChunkSize(
                                                Paragraph(trim(st.currentChunk)))
                                       ELSE st.chunks,
                            currentChunk |-> line \o NL,
                            inCodeBlock |-> TRUE,
                            codeBlockLanguage |-> SubSeq(trim(line), 4, Len(trim(line)))])
             ELSE LET cur == st.currentChunk \o line \o NL
                      trimmedChunk == trim(cur)
                  IN  IF /\ ~st.inCodeBlock
                         /\ trim(line) = <<>>
                         /\ trimmedChunk # <<>>
                         /\ isMajorStructuralBreak(trimmedChunk)
                      THEN AtomLineLoop(lines, k + 1,
                               [st EXCEPT !.chunks = @ \o ensureAtomicChunkSize(
                                                          Paragraph(trimmedChunk)),
                                          !.currentChunk = <<>>])
                      ELSE AtomLineLoop(lines, k + 1, [st EXCEPT !.currentChunk = cur])

splitTextIntoAtomicChunks(text) ==
    AtomLineLoop(splitLines(text), 1,
                 [chunks |-> <<>>, currentChunk |-> <<>>, inCodeBlock |-> FALSE,
                  codeBlockLanguage |-> <<>>])

(***************************************************************************)
(* splitIntoAtomicChunks                                                   *)
(***************************************************************************)
\* The match of /!\[([^\]]*)\]\(([^)]+)\)/ that starts at p: the index of its
\* last character, 0 when the expression does not match at p.  The alt text
\* ends at the first "]" after "![", which "(" must follow; the url is not
\* empty and ends at the first ")".
ImageEnd(s, p) ==
    IF ~(p + 1 <= Len(s) /\ s[p] = "!" /\ s[p + 1] = "[") THEN 0
    ELSE LET rbs == {r \in Pos(s, {"]"}) : r > p + 1}
         IN  IF rbs = {} THEN 0
             ELSE LET rb == MinOf(rbs)
                      rps == {r \in Pos(s, {")"}) : r > rb + 1}
                  IN  IF ~(rb + 1 <= Len(s) /\ s[rb + 1] = "(") \/ rps = {} THEN 0
                      ELSE IF MinOf(rps) > rb + 2 THEN MinOf(rps) ELSE 0

\* the text between two images, or after the last one, as atoms
TextAtoms(part) ==
    IF trim(part) # <<>> THEN splitTextIntoAtomicChunks(trim(part)) ELSE <<>>

\* the while loop of splitIntoAtomicChunks and the rest after it; lastIndex
\* is the number of characters consumed, S the starts of the matches of
\* imageRegex in content
RECURSIVE ImageLoop(_, _, _)
ImageLoop(c, lastIndex, S) ==
    LET next == {p \in S : p > lastIndex}
    IN  IF next = {}
        THEN TextAtoms(SubSeq(c, lastIndex + 1, Len(c)))
        ELSE LET p == MinOf(next)
                 e == ImageEnd(c, p)
             IN  TextAtoms(SubSeq(c, lastIndex + 1, p - 1))
                     \o <<ContentChunk("image", SubSeq(c, p, e), <<>>)>>
                     \o ImageLoop(c, e, S)

splitIntoAtomicChunks(c) ==
    ImageLoop(c, 0, {p \in Pos(c, {"!"}) : ImageEnd(c, p) > 0})

(***************************************************************************)
(* optimalRecombine                                                        *)
(***************************************************************************)
\* findOptimalTextGroup without the stop at images
RECURSIVE GroupLoop_NoImageStop(_, _, _, _)
GroupLoop_NoImageStop(cs, i, currentContent, best) ==
    IF i > Len(cs) THEN best
    ELSE LET chunk == cs[i]
             testContent == currentContent \o <<"\n", "\n">> \o chunk.content
         IN  IF Len(testContent) > MAX_CHUNK_SIZE THEN best
             ELSE IF ~hasMatchedCodeBlocks(testContent) THEN best
             ELSE GroupLoop_NoImageStop(cs, i + 1, testContent,
                      [chunk |-> Paragraph(trim(testContent)), endIndex |-> i + 1])

\* findOptimalTextGroup with the fence check inverted
RECURSIVE GroupLoop_InvertedFenceCheck(_, _, _, _)
GroupLoop_InvertedFenceCheck(cs, i, currentContent, best) ==
    IF i > Len(cs) THEN best
    ELSE LET chunk == cs[i]
             testContent == currentContent \o <<"\n", "\n">> \o chunk.content
         IN  IF chunk.type = "image" THEN best
             ELSE IF Len(testContent) > MAX_CHUNK_SIZE THEN best
             ELSE IF hasMatchedCodeBlocks(testContent) THEN best
             ELSE GroupLoop_InvertedFenceCheck(cs, i + 1, testContent,
                      [chunk |-> Paragraph(trim(testContent)), endIndex |-> i + 1])

\* findOptimalTextGroup without the stop at the ceiling
RECURSIVE GroupLoop_NoCeilingStop(_, _, _, _)
GroupLoop_NoCeilingStop(cs, i, currentContent, best) ==
    IF i > Len(cs) THEN best
    ELSE LET chunk == cs[i]
             testContent == currentContent \o <<"\n", "\n">> \o chunk.content
         IN  IF chunk.type = "image" THEN best
             ELSE IF ~hasMatchedCodeBlocks(testContent) THEN best
             ELSE GroupLoop_NoCeilingStop(cs, i + 1, testContent,
                      [chunk |-> Paragraph(trim(testContent)), endIndex |-> i + 1])

\* findOptimalTextGroup with the ceiling of code blocks in place of the
\* ceiling of chunks
RECURSIVE GroupLoop_CodeBlockCeiling(_, _, _, _)
GroupLoop_CodeBlockCeiling(cs, i, currentContent, best) ==
    IF i > Len(cs) THEN best
    ELSE LET chunk == cs[i]
             testContent == currentContent \o <<"\n", "\n">> \o chunk.content
         IN  IF chunk.type = "image" THEN best
             ELSE IF Len(testContent) > MAX_CODE_BLOCK_SIZE THEN best
             ELSE IF ~hasMatchedCodeBlocks(testContent) THEN best
             ELSE GroupLoop_CodeBlockCeiling(cs, i + 1, testContent,
                      [chunk |-> Paragraph(trim(testContent)), endIndex |-> i + 1])

\* the for loop of findOptimalTextGroup from index i on
RECURSIVE GroupLoop(_, _, _, _)
GroupLoop(cs, i, currentContent, best) ==
    IF i > Len(cs) THEN best
    ELSE LET chunk == cs[i]
             testContent == currentContent \o <<"\n", "\n">> \o chunk.content
         IN  IF chunk.type = "image" THEN best
             ELSE IF Len(testContent) > MAX_CHUNK_SIZE THEN best
             ELSE IF ~hasMatchedCodeBlocks(testContent) THEN best
             ELSE GroupLoop(cs, i + 1, testContent,
                            [chunk |-> Paragraph(trim(testContent)), endIndex |-> i + 1])

\* endIndex is the index of the first chunk after the group
findOptimalTextGroup(cs, startIndex) ==
    GroupLoop(cs, startIndex + 1, cs[startIndex].content,
              [chunk |-> cs[startIndex], endIndex |-> startIndex + 1])

\* optimalRecombine with the walk resumed one atom after the stopping atom
RECURSIVE RecombineFrom_SkipsStoppingAtom(_, _)
RecombineFrom_SkipsStoppingAtom(cs, i) ==
    IF i > Len(cs) THEN <<>>
    ELSE IF cs[i].type = "image"
    THEN <<cs[i]>> \o RecombineFrom_SkipsStoppingAtom(cs, i + 1)
    ELSE LET optimalGroup == findOptimalTextGroup(cs, i)
         IN  <<optimalGroup.chunk>>
                 \o RecombineFrom_SkipsStoppingAtom(cs, optimalGroup.endIndex + 1)

\* the while loop of optimalRecombine from index i on
RECURSIVE RecombineFrom(_, _)
RecombineFrom(cs, i) ==
    IF i > Len(cs) THEN <<>>
    ELSE IF cs[i].type = "image" THEN <<cs[i]>> \o RecombineFrom(cs, i + 1)
    ELSE LET optimalGroup == findOptimalTextGroup(cs, i)
         IN  <<optimalGroup.chunk>> \o RecombineFrom(cs, optimalGroup.endIndex)

optimalRecombine(atomicChunks) == RecombineFrom(atomicChunks, 1)

\* the atoms that each pass of the while loop of optimalRecombine consumes:
\* <<first, last>> for every chunk pushed to `result`, from index i on
RECURSIVE RunsFrom(_, _)
RunsFrom(cs, i) ==
    IF i > Len(cs) THEN <<>>
    ELSE IF cs[i].type = "image" THEN << <<i, i>> >> \o RunsFrom(cs, i + 1)
    ELSE LET endIndex == findOptimalTextGroup(cs, i).endIndex
         IN  << <<i, endIndex - 1>> >> \o RunsFrom(cs, endIndex)

(***************************************************************************)
(* resolveRelativeLinks, resolveUrl, resolveRelativePath                   *)
(***************************************************************************)
HTTP == <<"h", "t", "t", "p", ":", "/", "/">>
HTTPS == <<"h", "t", "t", "p", "s", ":", "/", "/">>

\* new URL(sourceUrl) for an http(s) URL without query and fragment: <<>>
\* when the constructor throws, else <<[protocol, host, pathname, href]>>
ParseUrl(s) ==
    LET scheme == IF startsWith(s, HTTPS) THEN HTTPS
                  ELSE IF startsWith(s, HTTP) THEN HTTP ELSE <<>>
        rest == SubSeq(s, Len(scheme) + 1, Len(s))
        slashes == Pos(rest, {"/"})
        host == IF slashes = {} THEN rest ELSE SubSeq(rest, 1, MinOf(slashes) - 1)
        pathname == IF slashes = {} THEN <<"/">>
                    ELSE SubSeq(rest, MinOf(slashes), Len(rest))
    IN  IF scheme = <<>> \/ host = <<>> THEN <<>>
        ELSE <<[protocol |-> SubSeq(scheme, 1, Len(scheme) - 2),
                host |-> host,
                pathname |-> pathname,
                href |-> scheme \o host \o pathname]>>

\* the for loop of resolveRelativePath over relativeParts[k..]
RECURSIVE PathLoop(_, _, _)
PathLoop(baseParts, relativeParts, k) ==
    IF k > Len(relativeParts) THEN baseParts
    ELSE LET part == relativeParts[k]
         IN  IF part = <<".", ".">>
             THEN PathLoop(SubSeq(baseParts, 1, Len(baseParts) - 1), relativeParts, k + 1)
             ELSE IF part # <<>> /\ part # <<".">>
             THEN PathLoop(Append(baseParts, part), relativeParts, k + 1)
             ELSE PathLoop(baseParts, relativeParts, k + 1)

resolveRelativePath(basePath, relativePath) ==
    LET rel == IF startsWith(relativePath, <<".", "/">>)
               THEN SubSeq(relativePath, 3, Len(relativePath))
               ELSE relativePath
        baseParts == SelectSeq(SplitFrom(basePath, 1, Pos(basePath, {"/"})),
                               LAMBDA part : part # <<>>)
        relativeParts == SplitFrom(rel, 1, Pos(rel, {"/"}))
    IN  <<"/">> \o join(PathLoop(baseParts, relativeParts, 1), <<"/">>)

resolveUrl(url, baseUrl) ==
    IF startsWith(url, HTTP) \/ startsWith(url, HTTPS) THEN url
    ELSE IF startsWith(url, <<"/", "/">>) THEN baseUrl.protocol \o url
    ELSE IF startsWith(url, <<"/">>)
    THEN baseUrl.protocol \o <<"/", "/">> \o baseUrl.host \o url
    ELSE IF startsWith(url, <<"#">>) THEN baseUrl.href \o url
    ELSE IF startsWith(url, <<"?">>) THEN baseUrl.href \o url
    ELSE LET pathname == baseUrl.pathname
             basePath == IF pathname[Len(pathname)] = "/" THEN pathname
                         ELSE SubSeq(pathname, 1, MaxOf(Pos(pathname, {"/"})))
         IN  baseUrl.protocol \o <<"/", "/">> \o baseUrl.host
                 \o resolveRelativePath(basePath, url)

\* The match of /\[([^\]]+)\]\(([^)]+)\)/ that starts at p: the index of its
\* last character, 0 when the expression does not match at p.  The text is
\* not empty and ends at the first "]" after "[", which "(" must follow; the
\* url is not empty and ends at the first ")".
LinkEnd(s, p) ==
    IF s[p] # "[" THEN 0
    ELSE LET rbs == {r \in Pos(s, {"]"}) : r > p}
         IN  IF rbs = {} THEN 0
             ELSE LET rb == MinOf(rbs)
                      rps == {r \in Pos(s, {")"}) : r > rb + 1}
                  IN  IF rb = p + 1 \/ ~(rb + 1 <= Len(s) /\ s[rb + 1] = "(")
                         \/ rps = {}
                      THEN 0
                      ELSE IF MinOf(rps) > rb + 2 THEN MinOf(rps) ELSE 0

\* content.replace(/\[([^\]]+)\]\(([^)]+)\)/g, ...) from index last + 1 on
RECURSIVE ReplaceLinksFrom(_, _, _)
ReplaceLinksFrom(s, last, baseUrl) ==
    LET next == {p \in Pos(s, {"["}) : p > last /\ LinkEnd(s, p) > 0}
    IN  IF next = {} THEN SubSeq(s, last + 1, Len(s))
        ELSE LET p == MinOf(next)
                 e == LinkEnd(s, p)
                 rb == MinOf({r \in Pos(s, {"]"}) : r > p})
             IN  SubSeq(s, last + 1, rb + 1)
                     \o resolveUrl(SubSeq(s, rb + 2, e - 1), baseUrl)
                     \o <<")">>
                     \o ReplaceLinksFrom(s, e, baseUrl)

\* src is <<>> (no sourceUrl) or <<sourceUrl>>
resolveRelativeLinks(c, src) ==
    IF src = <<>> \/ src[1] = <<>> \/ ParseUrl(src[1]) = <<>> THEN c
    ELSE ReplaceLinksFrom(c, 0, ParseUrl(src[1])[1])

(***************************************************************************)
(* splitContent: the documents of the splitter specification and the       *)
(* phases of intelligentSplit (no source URL comes with these documents).  *)
(***************************************************************************)
IMAGE == <<"!", "[", "a", "]", "(", "u", ")">>

SplitLineKinds ==
    { <<>>,
      FENCE \o <<"t", "s">>,
      FENCE,
      <<"#", " ", "H">>,
      IMAGE \o <<"j">>,
      <<"a", "b", ".">>,
      <<"!", "[", "b">>,
      Rep("x", 1200),
      <<"B">> \o Rep("y", 1098) \o <<".">>,
      Rep("w", 1500) \o <<" ">> \o Rep("w", 800) }

SplitDocs == DocsOf(SplitLineKinds, MaxLines)

Init ==
    /\ content \in SplitDocs
    /\ cleaned = <<>>
    /\ recleaned = <<>>
    /\ atoms = <<>>
    /\ chunks = <<>>
    /\ pc = "start"
    /\ UrlIdle /\ SendIdle /\ GuildIdle
    /\ CharIdle /\ PinIdle

Clean ==
    /\ pc = "start"
    /\ resolved' = resolveRelativeLinks(content, sourceUrl)
    /\ cleaned' = cleanContentForDiscord(resolved')
    /\ pc' = "cleaned"
    /\ UNCHANGED <<content, recleaned, atoms, chunks, sourceUrl>>
    /\ UNCHANGED <<sendVars, guildVars>>
    /\ UNCHANGED <<charVars, pinVars>>

SplitAtoms ==
    /\ pc = "cleaned"
    /\ atoms' = splitIntoAtomicChunks(cleaned)
    /\ pc' = "atoms"
    /\ UNCHANGED <<content, cleaned, recleaned, chunks>>
    /\ UNCHANGED <<urlVars, sendVars, guildVars>>
    /\ UNCHANGED <<charVars, pinVars>>

Recombine ==
    /\ pc = "atoms"
    /\ chunks' = optimalRecombine(atoms)
    /\ pc' = "done"
    /\ UNCHANGED <<content, cleaned, recleaned, atoms>>
    /\ UNCHANGED <<urlVars, sendVars, guildVars>>
    /\ UNCHANGED <<charVars, pinVars>>

Next == Clean \/ SplitAtoms \/ Recombine

Spec == Init /\ [][Next]_vars

(***************************************************************************)
(* Claims about splitContent (checked under Spec).                         *)
(***************************************************************************)

\* C1: every chunk returned by splitContent has a content of at most 2000
\* characters, whatever its kind.
C1_CeilingInvariant ==
    pc = "done" => \A i \in 1..Len(chunks) : Len(chunks[i].content) <= MAX_CHUNK_SIZE

\* C2: every chunk returned by splitContent holds an even number of fence
\* markers: no code block is torn across a chunk boundary.  Stated for the
\* inputs whose own fence markers are balanced (a text with an odd number of
\* markers cannot be divided into balanced chunks at all).
C2_FenceBalance ==
    (pc = "done" /\ hasMatchedCodeBlocks(cleaned))
        => \A i \in 1..Len(chunks) : hasMatchedCodeBlocks(chunks[i].content)

\* the matches of imageRegex in s, in order, scanning on from `last`
RECURSIVE ImageRefsFrom(_, _)
ImageRefsFrom(s, last) ==
    LET next == {p \in Pos(s, {"!"}) : p > last /\ ImageEnd(s, p) > 0}
    IN  IF next = {} THEN <<>>
        ELSE LET p == MinOf(next)
             IN  <<SubSeq(s, p, ImageEnd(s, p))>> \o ImageRefsFrom(s, ImageEnd(s, p))

ImageRefs(s) == ImageRefsFrom(s, 0)

ImageChunks(cs) == SelectSeq(cs, LAMBDA c : c.type = "image")

\* C3: the image chunks of the output are exactly the image references of
\* the sanitized text, in order; each holds one image reference and nothing
\* else; no other chunk holds an image reference.
C3_ImageIsolation ==
    pc = "done" =>
        /\ [i \in 1..Len(ImageChunks(chunks)) |-> ImageChunks(chunks)[i].content]
               = ImageRefs(cleaned)
        /\ \A i \in 1..Len(chunks) :
               IF chunks[i].type = "image"
               THEN ImageEnd(chunks[i].content, 1) = Len(chunks[i].content)
               ELSE ImageRefs(chunks[i].content) = <<>>

\* C3 witness: two images with text between them and after them were split.
C3_Witness ==
    /\ pc = "done"
    /\ Len(ImageRefs(cleaned)) >= 2
    /\ \E i \in 1..(Len(chunks) - 2) :
           /\ chunks[i].type = "image"
           /\ chunks[i + 1].type = "paragraph"
           /\ chunks[i + 2].type = "image"

RECURSIVE ConcatContents(_)
ConcatContents(cs) ==
    IF cs = <<>> THEN <<>> ELSE Head(cs).content \o ConcatContents(Tail(cs))

NonSpace(s) == SelectSeq(s, LAMBDA ch : ~IsSpace(ch))

\* C4: the contents of the output chunks, concatenated in order and with
\* all whitespace deleted, are the sanitized input with all whitespace
\* deleted: nothing is dropped, duplicated or moved.
C4_Lossless ==
    pc = "done" => NonSpace(ConcatContents(chunks)) = NonSpace(cleaned)

\* C4 witness: an oversize text was split and some of its atoms were merged.
C4_Witness ==
    /\ pc = "done"
    /\ Len(cleaned) > MAX_CHUNK_SIZE
    /\ Len(chunks) >= 2
    /\ Len(atoms) > Len(chunks)

\* s is one fenced code block: it opens with a fence line, closes with a
\* fence line and holds no other fence marker and no image reference
IsSingleCodeBlock(s) ==
    LET lines == splitLines(s)
    IN  /\ Len(lines) >= 2
        /\ IsFenceLine(lines[1])
        /\ IsFenceLine(lines[Len(lines)])
        /\ FenceCount(s) = 2
        /\ ImageRefs(s) = <<>>

\* the language tag of the opening fence line of s
OpeningLanguage(s) ==
    LET first == trim(splitLines(s)[1]) IN SubSeq(first, 4, Len(first))

\* C5: when a fenced code block exceeds the ceiling and is split by line,
\* every piece is fence-balanced by itself: it holds exactly one opening and
\* one closing fence.
C5_SplitCodePiecesFenced ==
    (pc = "atoms" /\ IsSingleCodeBlock(cleaned) /\ Len(cleaned) > MAX_CHUNK_SIZE)
        => \A i \in 1..Len(atoms) : FenceCount(atoms[i].content) = 2

\* C6: for a document that is one fenced code block with language L and
\* exceeds the ceiling, every chunk returned has kind code, carries L and
\* is at most 1900 characters long, and there are at least
\* ceil(length / 1900) chunks.
C6_SplitCodeKeepsKindLanguageSize ==
    (pc = "done" /\ IsSingleCodeBlock(cleaned) /\ Len(cleaned) > MAX_CHUNK_SIZE)
        => /\ \A i \in 1..Len(chunks) :
                  /\ chunks[i].type = "code"
                  /\ chunks[i].language = <<OpeningLanguage(cleaned)>>
                  /\ Len(chunks[i].content) <= MAX_CODE_BLOCK_SIZE
           /\ Len(chunks) * MAX_CODE_BLOCK_SIZE >= Len(cleaned)

InitClean ==
    /\ content \in CleanDocs
    /\ cleaned = <<>>
    /\ recleaned = <<>>
    /\ atoms = <<>>
    /\ chunks = <<>>
    /\ pc = "start"
    /\ UrlIdle /\ SendIdle /\ GuildIdle
    /\ CharIdle /\ PinIdle

CleanAgain ==
    /\ pc = "cleaned"
    /\ recleaned' = cleanContentForDiscord(cleaned)
    /\ pc' = "recleaned"
    /\ UNCHANGED <<content, cleaned, atoms, chunks>>
    /\ UNCHANGED <<urlVars, sendVars, guildVars>>
    /\ UNCHANGED <<charVars, pinVars>>

NextClean == Clean \/ CleanAgain

SpecClean == InitClean /\ [][NextClean]_vars

(***************************************************************************)
(* Claims about the sanitizer (checked under SpecClean).                   *)
(***************************************************************************)

\* C8: the sanitizer is idempotent: sanitizing an already sanitized text
\* changes nothing, sanitize(sanitize(x)) = sanitize(x).
C8_SanitizeIdempotent == pc = "recleaned" => recleaned = cleaned

\* a line that opens or closes a frontmatter block: "---" and whitespace
IsDashLine(l) == startsWith(l, <<"-", "-", "-">>) /\ trim(SubSeq(l, 4, Len(l))) = <<>>

\* the sanitizer without its frontmatter step
cleanKeepingDashBlocks(c) == trim(stripTrailing(collapseNewlines(replaceRules(c))))

\* C9: a "---" ... "---" block is removed only when its opening "---" is the
\* first line of the document: for a document whose first line is not "---"
\* the sanitized output keeps every "---" line and the text between them,
\* i.e. it is what the other steps of the sanitizer make of the whole input.
C9_OnlyLeadingFrontmatterRemoved ==
    (pc = "cleaned" /\ ~IsDashLine(splitLines(content)[1]))
        => cleaned = cleanKeepingDashBlocks(content)

\* C10: the sanitizer's output holds no run of three or more newlines and
\* no line that ends in a space or a tab.
C10_NoNewlineRunNoTrailingBlank ==
    pc = "cleaned" =>
        /\ \A i \in 1..(Len(cleaned) - 2) :
               ~(cleaned[i] = "\n" /\ cleaned[i + 1] = "\n" /\ cleaned[i + 2] = "\n")
        /\ \A i \in 1..Len(cleaned) :
               cleaned[i] \in {" ", "\t"} => (i < Len(cleaned) /\ cleaned[i + 1] # "\n")

(***************************************************************************)
(* splitContent with a source URL: documents that hold one link or image   *)
(* reference.                                                              *)
(***************************************************************************)
MaxSegments == 3     \* path segments per link or image URL

UrlSegmentKinds ==
    { <<>>,
      <<".">>,
      <<".", ".">>,
      <<"y">>,
      <<"#", "f">>,
      <<"?", "q">>,
      <<"h", "t", "t", "p", "s", ":">> }

\* the URLs of up to MaxSegments segments ("" excepted: a reference has a URL)
RefUrls ==
    {join(segs, <<"/">>) :
         segs \in UNION {[1..k -> UrlSegmentKinds] : k \in 1..MaxSegments}} \ {<<>>}

ORIGIN == HTTPS \o <<"h", ".", "i", "o">>

SourceUrls ==
    { <<>>,                                                    \* no sourceUrl
      << <<"n", "o", "p", "e">> >>,                            \* new URL throws
      << ORIGIN >>,
      << ORIGIN \o <<"/", "p">> >>,
      << ORIGIN \o <<"/", "d", "/">> >>,
      << ORIGIN \o <<"/", "d", "/", "c", "/", "p", ".", "m", "d">> >> }

\* [text](url) and ![alt](url)
Reference(bang, text, url) ==
    bang \o <<"[">> \o text \o <<"]", "(">> \o url \o <<")">>

\* a link, an image with an alt text and an image without one
References ==
    {Reference(<<>>, <<"t">>, url) : url \in RefUrls}
        \cup {Reference(<<"!">>, alt, url) : alt \in {<<"a">>, <<>>}, url \in RefUrls}

InitUrl ==
    /\ content \in References
    /\ sourceUrl \in SourceUrls
    /\ cleaned = <<>>
    /\ recleaned = <<>>
    /\ atoms = <<>>
    /\ chunks = <<>>
    /\ pc = "start"
    /\ resolved = <<>>
    /\ SendIdle /\ GuildIdle
    /\ CharIdle /\ PinIdle

SpecUrl == InitUrl /\ [][Next]_vars

(***************************************************************************)
(* Claims about link resolution (checked under SpecUrl).                   *)
(***************************************************************************)
\* the parts of a document that is one reference: up to "(", and the URL
RefOpen(c) == MinOf(Pos(c, {"("}))
RefHead(c) == SubSeq(c, 1, RefOpen(c))
RefUrl(c) == SubSeq(c, RefOpen(c) + 1, Len(c) - 1)

\* neither absolute nor protocol-relative, root-relative, fragment or query
IsRelativeUrl(url) ==
    /\ ~startsWith(url, HTTP) /\ ~startsWith(url, HTTPS)
    /\ ~startsWith(url, <<"/">>)
    /\ ~startsWith(url, <<"#">>) /\ ~startsWith(url, <<"?">>)

Segments(path) ==
    SelectSeq(SplitFrom(path, 1, Pos(path, {"/"})), LAMBDA g : g # <<>>)

\* the directory of the source document, as a sequence of components
ClaimedDirectory(pathname) ==
    LET parts == Segments(pathname)
    IN  IF pathname[Len(pathname)] = "/" THEN parts
        ELSE SubSeq(parts, 1, Len(parts) - 1)

\* the directory dir after the segments segs: "." is ignored, ".." removes
\* one component (none from the root), every other segment is appended
RECURSIVE ClaimedWalk(_, _)
ClaimedWalk(dir, segs) ==
    IF segs = <<>> THEN dir
    ELSE IF Head(segs) = <<".">> THEN ClaimedWalk(dir, Tail(segs))
    ELSE IF Head(segs) = <<".", ".">>
    THEN ClaimedWalk(IF dir = <<>> THEN <<>> ELSE SubSeq(dir, 1, Len(dir) - 1), Tail(segs))
    ELSE ClaimedWalk(Append(dir, Head(segs)), Tail(segs))

ClaimedUrl(source, url) ==
    LET base == ParseUrl(source)[1]
    IN  base.protocol \o <<"/", "/">> \o base.host \o <<"/">>
            \o join(ClaimedWalk(ClaimedDirectory(base.pathname), Segments(url)), <<"/">>)

\* C11: with a source URL, the URL of a link or image reference that is not
\* absolute, protocol-relative, root-relative, fragment or query is replaced
\* by the source origin followed by the path that the segments of the URL
\* lead to from the directory of the source document.
C11_RelativeUrlResolved ==
    (/\ pc # "start"
     /\ sourceUrl # <<>>
     /\ ParseUrl(sourceUrl[1]) # <<>>
     /\ IsRelativeUrl(RefUrl(content)))
        => resolved = RefHead(content) \o ClaimedUrl(sourceUrl[1], RefUrl(content)) \o <<")">>

\* C11 on the references that have a text: the URL is resolved as claimed.
C11_ReferenceWithTextResolved ==
    (/\ pc # "start"
     /\ sourceUrl # <<>>
     /\ ParseUrl(sourceUrl[1]) # <<>>
     /\ RefHead(content) \in {<<"[", "t", "]", "(">>, <<"!", "[", "a", "]", "(">>}
     /\ IsRelativeUrl(RefUrl(content)))
        => resolved = RefHead(content) \o ClaimedUrl(sourceUrl[1], RefUrl(content)) \o <<")">>

(***************************************************************************)
(* splitAndSendContent: sendSingleMessage, sendChunksToThread and          *)
(* sendImageAsEmbed.  A call of thread.send is put in inFlight when it is  *)
(* made and moved to log when its promise settles.  The thread accepts a   *)
(* text of at most TRANSPORT_LIMIT characters and rejects a longer one with*)
(* 'Must be 2000 or fewer in length'; any call may also fail for another   *)
(* reason (at most MaxFailures times in a run).                            *)
(***************************************************************************)
TRANSPORT_LIMIT == 2000
MaxSendLines == 2    \* lines (blocks) per document of the delivery specification
MaxFailures == 1     \* transport failures unrelated to size per run

\* a long line and three rule lines: 1908 characters that the sanitizer
\* turns into 2052
RULES == Rep("r", 1890) \o NL \o RULE_LINE \o NL \o RULE_LINE \o NL \o RULE_LINE
\* an open fence and one line longer than the ceiling
CODE_LONG ==
    FENCE \o <<"t", "s">> \o NL \o Rep("w", 1500) \o <<" ">> \o Rep("w", 800)
\* an image reference longer than the ceiling
LONG_IMAGE == <<"!", "[", "a", "]", "(">> \o Rep("u", 2000) \o <<")">>

SendLineKinds ==
    { <<"a", "b", ".">>,
      IMAGE,
      Rep("x", 1200),
      RULES,
      CODE_LONG,
      LONG_IMAGE }

SendDocs == DocsOf(SendLineKinds, MaxSendLines)

InitSend ==
    /\ content \in SendDocs
    /\ cleaned = <<>>
    /\ recleaned = <<>>
    /\ atoms = <<>>
    /\ chunks = <<>>
    /\ pc = "start"
    /\ UrlIdle /\ SendIdle /\ GuildIdle
    /\ CharIdle /\ PinIdle

\* the innermost call of sendChunksToThread and the chunk its loop is at
Top == stack[Len(stack)]
CurrentChunk == Top.chunks[Top.i]

\* a call of thread.send; path holds the loop index i of every active call
\* of sendChunksToThread, outermost first
Call(kind, c) ==
    [kind |-> kind, content |-> c, path |-> [k \in 1..Len(stack) |-> stack[k].i]]

Settled(call, result) ==
    [kind |-> call.kind, content |-> call.content, path |-> call.path,
     result |-> result]

\* thread.send(...) without the await: the caller goes on at once
StartSend_NoAwait(pending, call) ==
    /\ inFlight' = Append(pending, call)
    /\ pc' = "loop"

\* await thread.send(...): the caller is suspended until the promise settles
StartSend(pending, call) ==
    /\ inFlight' = Append(pending, call)
    /\ pc' = "await"

\* i++ of the innermost loop (also what `continue` leads to)
Advance == stack' = [stack EXCEPT ![Len(stack)].i = @ + 1]

\* await this.sendChunksToThread(subChunks, thread, suppressEmbeds)
Descend(subChunks) == stack' = Append(stack, [chunks |-> subChunks, i |-> 1])

\* content.length <= MAX_CHUNK_SIZE: sendSingleMessage
SendSingleMessage ==
    /\ pc = "start"
    /\ Len(content) <= MAX_CHUNK_SIZE
    /\ outcome' = "running"
    /\ StartSend(inFlight, Call("single", cleanContentForDiscord(content)))
    /\ UNCHANGED <<splitVars, urlVars, stack, log, failures, guildVars>>
    /\ UNCHANGED <<charVars, pinVars>>

\* otherwise intelligentSplit, and sendChunksToThread is entered
SplitForSending ==
    /\ pc = "start"
    /\ Len(content) > MAX_CHUNK_SIZE
    /\ outcome' = "running"
    /\ resolved' = resolveRelativeLinks(content, sourceUrl)
    /\ cleaned' = cleanContentForDiscord(resolved')
    /\ atoms' = splitIntoAtomicChunks(cleaned')
    /\ chunks' = optimalRecombine(atoms')
    /\ stack' = <<[chunks |-> chunks', i |-> 1]>>
    /\ pc' = "loop"
    /\ UNCHANGED <<content, recleaned, sourceUrl, inFlight, log, failures, guildVars>>
    /\ UNCHANGED <<charVars, pinVars>>

\* chunk.type === 'image': sendImageAsEmbed sends the embed
SendImageChunk ==
    /\ pc = "loop" /\ stack # <<>>
    /\ Top.i <= Len(Top.chunks)
    /\ CurrentChunk.type = "image"
    /\ StartSend(inFlight, Call("embed", CurrentChunk.content))
    /\ UNCHANGED <<splitVars, urlVars, stack, log, outcome, failures, guildVars>>
    /\ UNCHANGED <<charVars, pinVars>>

\* another chunk whose sanitized content is within the ceiling
SendTextChunk ==
    /\ pc = "loop" /\ stack # <<>>
    /\ Top.i <= Len(Top.chunks)
    /\ CurrentChunk.type # "image"
    /\ LET cleanedContent == cleanContentForDiscord(CurrentChunk.content)
       IN  /\ Len(cleanedContent) <= MAX_CHUNK_SIZE
           /\ StartSend(inFlight, Call("text", cleanedContent))
    /\ UNCHANGED <<splitVars, urlVars, stack, log, outcome, failures, guildVars>>
    /\ UNCHANGED <<charVars, pinVars>>

\* cleanedContent.length > MAX_CHUNK_SIZE: the sub-chunks are sent recursively
SplitOversizeChunk ==
    /\ pc = "loop" /\ stack # <<>>
    /\ Top.i <= Len(Top.chunks)
    /\ CurrentChunk.type # "image"
    /\ LET cleanedContent == cleanContentForDiscord(CurrentChunk.content)
       IN  /\ Len(cleanedContent) > MAX_CHUNK_SIZE
           /\ Descend(splitByCharacterCount(Paragraph(cleanedContent)))
    /\ UNCHANGED <<splitVars, urlVars, pc, inFlight, log, outcome, failures, guildVars>>
    /\ UNCHANGED <<charVars, pinVars>>

\* the for loop of a call of sendChunksToThread ends: the call returns, to
\* the `continue` of the calling loop or to splitAndSendContent
LoopEnds ==
    /\ pc = "loop" /\ stack # <<>>
    /\ Top.i > Len(Top.chunks)
    /\ IF Len(stack) = 1
       THEN /\ stack' = <<>>
            /\ outcome' = "returned"
            /\ pc' = "done"
       ELSE /\ stack' = [SubSeq(stack, 1, Len(stack) - 1)
                             EXCEPT ![Len(stack) - 1].i = @ + 1]
            /\ UNCHANGED <<outcome, pc>>
    /\ UNCHANGED <<splitVars, urlVars, inFlight, log, failures, guildVars>>
    /\ UNCHANGED <<charVars, pinVars>>

\* the thread accepts the call
SendSucceeds ==
    /\ pc = "await" /\ inFlight # <<>>
    /\ LET call == Head(inFlight)
       IN  /\ call.kind = "embed" \/ Len(call.content) <= TRANSPORT_LIMIT
           /\ log' = Append(log, Settled(call, "ok"))
           /\ inFlight' = Tail(inFlight)
           /\ IF call.kind = "single"
              THEN /\ outcome' = "returned"
                   /\ pc' = "done"
                   /\ UNCHANGED stack
              ELSE /\ Advance
                   /\ pc' = "loop"
                   /\ UNCHANGED outcome
    /\ UNCHANGED <<splitVars, urlVars, failures, guildVars>>
    /\ UNCHANGED <<charVars, pinVars>>

\* the thread rejects a text longer than its limit: splitAndSendContent
\* rethrows the error of sendSingleMessage, the catch of sendChunksToThread
\* splits the chunk by character count and sends the pieces
SendRejectedForLength ==
    /\ pc = "await" /\ inFlight # <<>>
    /\ LET call == Head(inFlight)
       IN  /\ call.kind # "embed"
           /\ Len(call.content) > TRANSPORT_LIMIT
           /\ log' = Append(log, Settled(call, "length"))
           /\ inFlight' = Tail(inFlight)
           /\ IF call.kind = "single"
              THEN /\ outcome' = "threw"
                   /\ pc' = "done"
                   /\ UNCHANGED stack
              ELSE /\ Descend(splitByCharacterCount(CurrentChunk))
                   /\ pc' = "loop"
                   /\ UNCHANGED outcome
    /\ UNCHANGED <<splitVars, urlVars, failures, guildVars>>
    /\ UNCHANGED <<charVars, pinVars>>

\* the call fails for a reason other than the length: splitAndSendContent
\* rethrows, sendImageAsEmbed falls back to the Markdown text of the image,
\* sendChunksToThread goes on with the next chunk
SendFails ==
    /\ pc = "await" /\ inFlight # <<>>
    /\ failures < MaxFailures
    /\ failures' = failures + 1
    /\ LET call == Head(inFlight)
       IN  /\ log' = Append(log, Settled(call, "fail"))
           /\ IF call.kind = "single"
              THEN /\ inFlight' = Tail(inFlight)
                   /\ outcome' = "threw"
                   /\ pc' = "done"
                   /\ UNCHANGED stack
              ELSE IF call.kind = "embed"
              THEN /\ StartSend(Tail(inFlight), Call("fallback", CurrentChunk.content))
                   /\ UNCHANGED <<stack, outcome>>
              ELSE /\ inFlight' = Tail(inFlight)
                   /\ Advance
                   /\ pc' = "loop"
                   /\ UNCHANGED outcome
    /\ UNCHANGED <<splitVars, urlVars, guildVars>>
    /\ UNCHANGED <<charVars, pinVars>>

NextSend ==
    \/ SendSingleMessage
    \/ SplitForSending
    \/ SendImageChunk
    \/ SendTextChunk
    \/ SplitOversizeChunk
    \/ LoopEnds
    \/ SendSucceeds
    \/ SendRejectedForLength
    \/ SendFails

SpecSend == InitSend /\ [][NextSend]_vars

(***************************************************************************)
(* Claims about the delivery (checked under SpecSend).                     *)
(***************************************************************************)
\* splitContent(content, sourceUrl)
splitContent(c, src) ==
    optimalRecombine(splitIntoAtomicChunks(
        cleanContentForDiscord(resolveRelativeLinks(c, src))))

\* C12: when every transport call succeeds, the calls made for a document
\* are, in order, one per chunk of splitContent(document): an image send for
\* an image chunk (its reference handed over whole), a text send for any
\* other chunk; and no text send holds an image reference.
C12_OneCallPerChunk ==
    (pc = "done" /\ \A k \in 1..Len(log) : log[k].result = "ok")
        => LET sc == splitContent(content, sourceUrl)
           IN  /\ Len(log) = Len(sc)
               /\ \A k \in 1..Len(log) :
                      IF sc[k].type = "image"
                      THEN log[k].kind = "embed" /\ log[k].content = sc[k].content
                      ELSE log[k].kind \in {"single", "text"}
               /\ \A k \in 1..Len(log) :
                      log[k].kind # "embed" => ImageRefs(log[k].content) = <<>>

\* C13: when transport calls fail for reasons unrelated to size,
\* splitAndSendContent still returns normally and every chunk of
\* splitContent(document) has been attempted, in order.
C13_FailureIsolated ==
    (/\ pc = "done"
     /\ \E k \in 1..Len(log) : log[k].result = "fail"
     /\ \A k \in 1..Len(log) : log[k].result # "length")
        => /\ outcome = "returned"
           /\ {log[k].path[1] : k \in 1..Len(log)}
                  = 1..Len(splitContent(content, sourceUrl))
           /\ \A a, b \in 1..Len(log) : a < b => log[a].path[1] <= log[b].path[1]

\* C14: a text that the transport rejects for its length is split again into
\* pieces within the ceiling, and the calls that follow the rejection are
\* the sends of these pieces, in order.
C14_OversizeRetried ==
    pc = "done" =>
        \A k \in 1..Len(log) :
            log[k].result = "length" =>
                LET pieces == splitByCharacterCount(Paragraph(log[k].content))
                IN  /\ Len(log) >= k + Len(pieces)
                    /\ \A j \in 1..Len(pieces) :
                           /\ Len(pieces[j].content) <= MAX_CHUNK_SIZE
                           /\ log[k + j].kind = "text"
                           /\ log[k + j].content
                                  = cleanContentForDiscord(pieces[j].content)

\* p comes before q in document order, or is q, or is a call made for a
\* chunk of which q sends a piece
RECURSIVE PathLeq(_, _)
PathLeq(p, q) ==
    IF p = <<>> THEN TRUE
    ELSE IF q = <<>> THEN FALSE
    ELSE IF Head(p) # Head(q) THEN Head(p) < Head(q)
    ELSE PathLeq(Tail(p), Tail(q))

\* C15: at most one transport call is in flight at any time, and the calls
\* reach the transport in document order: a call for a chunk (or for one of
\* its pieces) is made only after every call for an earlier chunk or piece
\* has settled.
C15_Sequential ==
    /\ Len(inFlight) <= 1
    /\ \A a, b \in 1..Len(log) : a < b => PathLeq(log[a].path, log[b].path)
    /\ \A c \in 1..Len(inFlight) :
           \A a \in 1..Len(log) : PathLeq(log[a].path, inFlight[c].path)

\* C15 witness: the pieces of a chunk that was split again have been sent,
\* one of the calls failed, and the next chunk was sent after them.
C15_Witness ==
    /\ pc = "done"
    /\ outcome = "returned"
    /\ \E k \in 1..Len(log) : log[k].result = "fail"
    /\ \E k \in 1..(Len(log) - 2) :
           /\ Len(log[k].path) = 2
           /\ Len(log[k + 1].path) = 2
           /\ log[k + 2].path = <<log[k].path[1] + 1>>

(***************************************************************************)
(* splitContent on documents made of blocks near the ceilings: an open     *)
(* code block whose lines are split into pieces, an indented line, a line  *)
(* of no-break spaces, an image.                                           *)
(***************************************************************************)
MaxBlockLines == 4   \* lines (blocks) per document of this specification

\* an opening fence and a line: 1899 characters, no line fits after them
HEAD == FENCE \o <<"t", "s">> \o NL \o Rep("h", 1893)
INDENT == <<" ", " ", "i">>
BODY == Rep("b", 1991)
BLANKS == Rep(NBSP, 10)

BlockLineKinds == {HEAD, INDENT, BODY, BLANKS, IMAGE}

BlockDocs == DocsOf(BlockLineKinds, MaxBlockLines)

InitBlocks ==
    /\ content \in BlockDocs
    /\ cleaned = <<>>
    /\ recleaned = <<>>
    /\ atoms = <<>>
    /\ chunks = <<>>
    /\ pc = "start"
    /\ UrlIdle /\ SendIdle /\ GuildIdle
    /\ CharIdle /\ PinIdle

SpecBlocks == InitBlocks /\ [][Next]_vars

(***************************************************************************)
(* Claims about the chunks and the packer (checked under SpecBlocks).      *)
(***************************************************************************)
ChunkKinds == {"image", "paragraph", "code", "sentence", "chunk"}

\* C16: every atom of the decomposition and every chunk returned by
\* splitContent has a kind of the declared set and a content that is
\* neither empty nor whitespace only.
C16_NoBlankChunk ==
    pc = "done" =>
        /\ \A i \in 1..Len(atoms) :
               atoms[i].type \in ChunkKinds /\ trim(atoms[i].content) # <<>>
        /\ \A i \in 1..Len(chunks) :
               chunks[i].type \in ChunkKinds /\ trim(chunks[i].content) # <<>>

\* the runs <<first, last>> that the cuts (the last indices of all runs but
\* the final one) divide 1..n into, from index first on
RECURSIVE RunsOfCuts(_, _, _)
RunsOfCuts(first, cuts, n) ==
    IF cuts = {} THEN << <<first, n>> >>
    ELSE LET c == MinOf(cuts)
         IN  << <<first, c>> >> \o RunsOfCuts(c + 1, cuts \ {c}, n)

\* the contents of the atoms cs[a..b] joined by blank-line separators
JoinedRun(cs, a, b) ==
    join([k \in 1..(b - a + 1) |-> cs[a + k - 1].content], <<"\n", "\n">>)

\* the length of JoinedRun(cs, a, b)
RECURSIVE JoinedLen(_, _, _)
JoinedLen(cs, a, b) ==
    IF a = b THEN Len(cs[a].content)
    ELSE Len(cs[a].content) + 2 + JoinedLen(cs, a + 1, b)

\* out is cs packed along the runs: an image atom is a run of its own and is
\* emitted unchanged, every other chunk holds Merged(join of its run)
PackedAlong(out, cs, runs, Merged(_)) ==
    /\ Len(runs) = Len(out)
    /\ \A k \in 1..Len(runs) :
           LET a == runs[k][1]
               b == runs[k][2]
           IN  IF \E j \in a..b : cs[j].type = "image"
               THEN a = b /\ out[k] = cs[a]
               ELSE IF a = b THEN out[k].content = cs[a].content
               ELSE out[k].content = Merged(JoinedRun(cs, a, b))

Partitions(n) ==
    {RunsOfCuts(1, cuts, n) : cuts \in SUBSET (1..(n - 1))}

C19_MergesWithinCeilingAndBalanced ==
    pc = "done" =>
        LET runs == RunsFrom(atoms, 1)
        IN  \A k \in 1..Len(runs) :
                runs[k][2] > runs[k][1] =>
                    /\ Len(chunks[k].content) <= MAX_CHUNK_SIZE
                    /\ hasMatchedCodeBlocks(chunks[k].content)
                    /\ JoinedLen(atoms, runs[k][1], runs[k][2]) <= MAX_CHUNK_SIZE
                    /\ hasMatchedCodeBlocks(JoinedRun(atoms, runs[k][1], runs[k][2]))

\* C19 witness: the packer left an atom alone because of its fence marker,
\* merged the next two, and stopped before the one after them because of
\* the ceiling.
C19_Witness ==
    /\ pc = "done"
    /\ \E k \in 2..(Len(chunks) - 1) :
           LET runs == RunsFrom(atoms, 1)
           IN  /\ runs[k][2] > runs[k][1]
               /\ ~hasMatchedCodeBlocks(chunks[k - 1].content)
               /\ chunks[k + 1].type # "image"
               /\ JoinedLen(atoms, runs[k][1], runs[k][2]) + 2
                      + Len(atoms[runs[k + 1][1]].content) > MAX_CHUNK_SIZE

\* the join of A and the atom with a blank-line separator neither fits the
\* ceiling nor keeps the fence markers balanced ... or one of the two
CannotAppend(A, atom) ==
    \/ Len(A) + 2 + Len(atom.content) > MAX_CHUNK_SIZE
    \/ ~hasMatchedCodeBlocks(A \o <<"\n", "\n">> \o atom.content)

MaxCalls == 3   \* calls of getGuild per behaviour

GuildIds == {"g1", "g2"}

InitGuild ==
    /\ guildMap = <<>>
    /\ calls = <<>>
    /\ nextGuild = 0
    /\ content = <<>>
    /\ cleaned = <<>>
    /\ recleaned = <<>>
    /\ atoms = <<>>
    /\ chunks = <<>>
    /\ pc = "guild"
    /\ UrlIdle /\ SendIdle
    /\ CharIdle /\ PinIdle

\* getGuild up to its return or to its await: the map is read, a hit is
\* returned, a miss starts createOrGetGuild
GetGuild(guildId) ==
    /\ pc = "guild"
    /\ Len(calls) < MaxCalls
    /\ calls' = Append(calls,
           IF guildId \in DOMAIN guildMap
           THEN [guildId |-> guildId, pc |-> "returned",
                 guild |-> guildMap[guildId]]
           ELSE [guildId |-> guildId, pc |-> "await", guild |-> 0])
    /\ UNCHANGED <<guildMap, nextGuild, pc>>
    /\ UNCHANGED <<splitVars, urlVars, sendVars>>
    /\ UNCHANGED <<charVars, pinVars>>

\* the promise of createOrGetGuild resolves: a Guild is constructed, put in
\* the map under the id, and returned
CreateOrGetGuildResolves(c) ==
    /\ pc = "guild"
    /\ calls[c].pc = "await"
    /\ nextGuild' = nextGuild + 1
    /\ guildMap' = [id \in DOMAIN guildMap \cup {calls[c].guildId} |->
                       IF id = calls[c].guildId THEN nextGuild'
                       ELSE guildMap[id]]
    /\ calls' = [calls EXCEPT ![c].pc = "returned", ![c].guild = nextGuild']
    /\ UNCHANGED pc
    /\ UNCHANGED <<splitVars, urlVars, sendVars>>
    /\ UNCHANGED <<charVars, pinVars>>

\* the promise of createOrGetGuild rejects: getGuild throws, the map is
\* left as it is
CreateOrGetGuildRejects(c) ==
    /\ pc = "guild"
    /\ calls[c].pc = "await"
    /\ calls' = [calls EXCEPT ![c].pc = "thrown"]
    /\ UNCHANGED <<guildMap, nextGuild, pc>>
    /\ UNCHANGED <<splitVars, urlVars, sendVars>>
    /\ UNCHANGED <<charVars, pinVars>>

NextGuildService ==
    \/ \E guildId \in GuildIds : GetGuild(guildId)
    \/ \E c \in 1..Len(calls) : CreateOrGetGuildResolves(c)
    \/ \E c \in 1..Len(calls) : CreateOrGetGuildRejects(c)

SpecGuild == InitGuild /\ [][NextGuildService]_vars

\* C17: all the calls of getGuild that have returned for one guild id have
\* returned the same Guild instance, the calls that overlapped during the
\* first load included.
C17_SameInstance ==
    \A c, d \in 1..Len(calls) :
        (/\ calls[c].pc = "returned"
         /\ calls[d].pc = "returned"
         /\ calls[c].guildId = calls[d].guildId)
            => calls[c].guild = calls[d].guild

(***************************************************************************)
(* Claims about the decomposer and the oversize splitters (checked under   *)
(* Spec).                                                                  *)
(***************************************************************************)
IsBlankLine(l) == trim(l) = <<>>

\* a text without fence marker and without image reference that needs no
\* oversize split
IsProse(text) ==
    /\ Pos(text, {BT}) = {}
    /\ {p \in Pos(text, {"!"}) : ImageEnd(text, p) > 0} = {}
    /\ Len(text) <= MAX_CHUNK_SIZE

\* the blank lines next to a heading line: the one after it or before it
BreaksAroundHeadings(lines) ==
    {i \in 2..(Len(lines) - 1) :
        /\ IsBlankLine(lines[i])
        /\ IsHeaderLine(lines[i - 1]) \/ IsHeaderLine(lines[i + 1])}

\* the blank lines that directly follow a heading line
BreaksAfterHeadings(lines) ==
    {i \in 2..(Len(lines) - 1) :
        IsBlankLine(lines[i]) /\ IsHeaderLine(lines[i - 1])}

\* the lines from index first on, cut at the lines of `breaks`
RECURSIVE SectionsFrom(_, _, _)
SectionsFrom(lines, first, breaks) ==
    IF breaks = {} THEN <<SubSeq(lines, first, Len(lines))>>
    ELSE LET b == MinOf(breaks)
         IN  <<SubSeq(lines, first, b - 1)>>
                 \o SectionsFrom(lines, b + 1, breaks \ {b})

\* the texts of the sections, trimmed, the empty ones left out
SectionTexts(lines, breaks) ==
    LET sections == SectionsFrom(lines, 1, breaks)
        texts == [k \in 1..Len(sections) |-> trim(join(sections[k], NL))]
    IN  SelectSeq(texts, LAMBDA t : t # <<>>)

AtomContents == [i \in 1..Len(atoms) |-> atoms[i].content]

\* C21: outside a fence the paragraph buffer is flushed as an atom at the
\* blank lines that a heading line directly follows or precedes, and at no
\* other blank line: the atoms of a prose document are its sections between
\* those blank lines (so a heading starts the atom that holds its section).
C21_FlushAroundHeadings ==
    (pc = "done" /\ IsProse(cleaned)) =>
        AtomContents = SectionTexts(splitLines(cleaned),
                                    BreaksAroundHeadings(splitLines(cleaned)))

\* what holds in place of C21: the flush is made at the blank lines that
\* directly follow a heading line, and only there
C21_FlushAfterHeadings ==
    (pc = "done" /\ IsProse(cleaned)) =>
        AtomContents = SectionTexts(splitLines(cleaned),
                                    BreaksAfterHeadings(splitLines(cleaned)))

\* the blank-line-separated paragraphs of a text
ParagraphsOf(text) ==
    SectionTexts(splitLines(text),
                 {i \in 1..Len(splitLines(text)) : IsBlankLine(splitLines(text)[i])})

\* an oversize atom of prose that the paragraph split can repair: no fence
\* marker, image or heading, two or more paragraphs, each within the ceiling
IsOversizeParagraphs(text) ==
    /\ Pos(text, {BT}) = {}
    /\ {p \in Pos(text, {"!"}) : ImageEnd(text, p) > 0} = {}
    /\ \A i \in 1..Len(splitLines(text)) : ~IsHeaderLine(splitLines(text)[i])
    /\ Len(text) > MAX_CHUNK_SIZE
    /\ Len(ParagraphsOf(text)) >= 2
    /\ \A k \in 1..Len(ParagraphsOf(text)) :
           Len(ParagraphsOf(text)[k]) <= MAX_CHUNK_SIZE

\* C23: the oversize splitter tries the horizontal-rule split and the
\* paragraph split before the sentence split and the hard character split:
\* an oversize paragraph atom made of blank-line-separated paragraphs that
\* are each within the ceiling is split at paragraph boundaries, every piece
\* being a run of whole paragraphs.
C23_ParagraphSplitBeforeCharacterSplit ==
    (pc = "done" /\ IsOversizeParagraphs(cleaned)) =>
        LET paragraphs == ParagraphsOf(cleaned)
        IN  \E runs \in Partitions(Len(paragraphs)) :
                AtomContents =
                    [k \in 1..Len(runs) |->
                        join(SubSeq(paragraphs, runs[k][1], runs[k][2]),
                             <<"\n", "\n">>)]

(***************************************************************************)
(* splitContent on documents of prose and fence lines, one of them an      *)
(* opening fence that is indented.                                         *)
(***************************************************************************)
MaxFenceLines == 4   \* lines per document of this specification

INDENTED_FENCE == <<" ", " ">> \o FENCE \o <<"t", "s">>

FenceLineKinds ==
    { <<>>, <<"a", "b", ".">>, <<"#", " ", "H">>, FENCE, INDENTED_FENCE }

FenceDocs == DocsOf(FenceLineKinds, MaxFenceLines)

InitFence ==
    /\ content \in FenceDocs
    /\ cleaned = <<>>
    /\ recleaned = <<>>
    /\ atoms = <<>>
    /\ chunks = <<>>
    /\ pc = "start"
    /\ UrlIdle /\ SendIdle /\ GuildIdle
    /\ CharIdle /\ PinIdle

SpecFence == InitFence /\ [][Next]_vars

\* the fence lines of F paired in order: <<opening, closing>>, the last
\* opening one paired with the last line n when no fence line follows it
RECURSIVE BlocksOf(_, _)
BlocksOf(F, n) ==
    IF F = {} THEN <<>>
    ELSE LET a == MinOf(F)
             rest == F \ {a}
         IN  IF rest = {} THEN << <<a, n>> >>
             ELSE << <<a, MinOf(rest)>> >> \o BlocksOf(rest \ {MinOf(rest)}, n)

\* the code atoms that the fenced blocks of the lines give, Text(_) applied
\* to the lines of a block joined by newlines
BlockAtoms(lines, Text(_)) ==
    LET blocks == BlocksOf({i \in 1..Len(lines) : IsFenceLine(lines[i])},
                           Len(lines))
    IN  [k \in 1..Len(blocks) |->
            ContentChunk("code",
                         Text(join(SubSeq(lines, blocks[k][1], blocks[k][2]), NL)),
                         <<OpeningLanguage(lines[blocks[k][1]])>>)]

\* the atoms of an image-free text within the ceiling are its fenced blocks
\* as code atoms, Text(_) of its lines each, and paragraphs without fence
\* marker for the prose before, between and after them, all in order
FencesTracked(Text(_)) ==
    /\ SelectSeq(atoms, LAMBDA a : a.type = "code")
           = BlockAtoms(splitLines(cleaned), Text)
    /\ \A i \in 1..Len(atoms) :
           atoms[i].type # "code" =>
               /\ atoms[i].type = "paragraph"
               /\ FenceCount(atoms[i].content) = 0
    /\ NonSpace(ConcatContents(atoms)) = NonSpace(cleaned)

\* C22 as claimed: within a text segment the lines from an opening fence
\* line through the next fence line are one atom of kind code that holds
\* them verbatim and carries the language text of the opening line; the
\* prose before it is a paragraph atom of its own; the buffer left at the
\* end of the input is a code atom when a fence is open and a paragraph
\* otherwise.
C22_FenceBlocksVerbatim ==
    (pc = "done" /\ ImageRefs(cleaned) = <<>> /\ Len(cleaned) <= MAX_CHUNK_SIZE)
        => FencesTracked(LAMBDA t : t)

\* C22 amended: the same, the code atom holding the lines of the block
\* without the whitespace at the start of the opening line and at the end
\* of the last line.
C22_FenceBlocksTrimmed ==
    (pc = "done" /\ ImageRefs(cleaned) = <<>> /\ Len(cleaned) <= MAX_CHUNK_SIZE)
        => FencesTracked(trim)

\* C22 witness: prose, then a closed block with a language, then a block
\* left open at the end of the input.
C22_Witness ==
    /\ pc = "done"
    /\ Len(atoms) = 3
    /\ atoms[1].type = "paragraph"
    /\ atoms[2].type = "code" /\ atoms[2].language = << <<"t", "s">> >>
    /\ FenceCount(atoms[2].content) = 2
    /\ atoms[3].type = "code" /\ FenceCount(atoms[3].content) = 1

(***************************************************************************)
(* splitContent on documents of sentences, some of them with a fence       *)
(* marker inside the line: each document is one paragraph atom.            *)
(***************************************************************************)
MaxSentenceLines == 4   \* lines (sentences) per document of this specification

FENCED_SENTENCE == <<"B">> \o FENCE \o <<".">>
LONG_SENTENCE == <<"B">> \o Rep("y", 1098) \o <<".">>
LONG_WORDS == Rep("w", 1500) \o <<" ">> \o Rep("w", 800)

SentenceLineKinds == {FENCED_SENTENCE, LONG_SENTENCE, LONG_WORDS}

SentenceDocs == DocsOf(SentenceLineKinds, MaxSentenceLines)

InitSentences ==
    /\ content \in SentenceDocs
    /\ cleaned = <<>>
    /\ recleaned = <<>>
    /\ atoms = <<>>
    /\ chunks = <<>>
    /\ pc = "start"
    /\ UrlIdle /\ SendIdle /\ GuildIdle
    /\ CharIdle /\ PinIdle

SpecSentences == InitSentences /\ [][Next]_vars

\* the pieces that the loop of the sentence split makes of the text, before
\* they are validated
CandidateSplit(text) == SentenceLoop(splitTextBySentences(text), 1, <<>>)

HasOddPiece(pieces) ==
    \E i \in 1..Len(pieces) : ~hasMatchedCodeBlocks(pieces[i].content)

\* C24: the sentence split of an oversize paragraph returns the original
\* chunk alone or pieces that are all within the ceiling and fence-balanced;
\* when a piece of the candidate split holds an odd number of fence markers
\* the original chunk is returned and the caller goes on to the character
\* split; when more than one piece is returned they are the atoms.
C24_SentenceSplitBalancedOrRejected ==
    (pc = "done" /\ Len(cleaned) > MAX_CHUNK_SIZE) =>
        LET chunk == Paragraph(cleaned)
            pieces == trySplitBySentences(chunk)
        IN  /\ \/ pieces = <<chunk>>
               \/ \A i \in 1..Len(pieces) :
                      /\ Len(pieces[i].content) <= MAX_CHUNK_SIZE
                      /\ hasMatchedCodeBlocks(pieces[i].content)
            /\ (Len(splitTextBySentences(cleaned)) > 1
                    /\ HasOddPiece(CandidateSplit(cleaned)))
                   => (pieces = <<chunk>> /\ atoms = splitByCharacterCount(chunk))
            /\ Len(pieces) > 1 => atoms = pieces
            /\ Len(pieces) > 1 =>
                   \A i \in 1..Len(atoms) : hasMatchedCodeBlocks(atoms[i].content)

\* C24 witness: a candidate split of two or more pieces, one of them with an
\* odd number of fence markers, was rejected and the character split made
\* the atoms.
C24_Witness ==
    /\ pc = "done"
    /\ Len(cleaned) > MAX_CHUNK_SIZE
    /\ Len(CandidateSplit(cleaned)) >= 2
    /\ HasOddPiece(CandidateSplit(cleaned))
    /\ \E i \in 1..Len(CandidateSplit(cleaned)) :
           FenceCount(CandidateSplit(cleaned)[i].content) = 2
    /\ Len(atoms) >= 2
    /\ atoms = splitByCharacterCount(Paragraph(cleaned))

(***************************************************************************)
(* splitByCharacterCount, one iteration of its while loop at a time, on    *)
(* texts made of long words and single characters.                         *)
(***************************************************************************)
MaxParts == 4   \* parts per text of this specification

CharacterPartKinds ==
    { Rep("q", 1400), Rep("q", 600), <<"q">>, <<" ">>, <<".">>, <<"?">> }

CharacterTexts ==
    {join(ps, <<>>) : ps \in UNION {[1..k -> CharacterPartKinds] : k \in 1..MaxParts}}

InitCharacters ==
    /\ content \in CharacterTexts
    /\ remainingText = content
    /\ chunks = <<>>
    /\ pc = "while"
    /\ cleaned = <<>>
    /\ recleaned = <<>>
    /\ atoms = <<>>
    /\ UrlIdle /\ SendIdle /\ GuildIdle /\ PinIdle

\* the search of the break point with its window opened down to index 0
BreakPointOf_SearchFromStart(text) ==
    LET found == {i \in 0..MAX_CHUNK_SIZE : text[i + 1] \in BREAK_CHARS}
    IN  IF found = {} THEN MAX_CHUNK_SIZE ELSE MaxOf(found)

\* the break point of one iteration: the for loop from maxSize down to
\* maxSize * 0.7 (exclusive)
BreakPointOf(text) ==
    LET found == {i \in (BREAK_WINDOW_FLOOR + 1)..MAX_CHUNK_SIZE :
                      text[i + 1] \in BREAK_CHARS}
    IN  IF found = {} THEN MAX_CHUNK_SIZE ELSE MaxOf(found)

\* one iteration of the while loop
CharacterIteration ==
    /\ pc = "while"
    /\ Len(remainingText) > MAX_CHUNK_SIZE
    /\ LET breakPoint == BreakPointOf(remainingText)
           chunkContent == trim(SubSeq(remainingText, 1, breakPoint))
       IN  /\ chunks' =
                  IF Len(chunkContent) > 0 /\ Len(chunkContent) <= MAX_CHUNK_SIZE
                  THEN Append(chunks, Paragraph(chunkContent))
                  ELSE IF Len(chunkContent) > MAX_CHUNK_SIZE
                  THEN Append(chunks,
                              Paragraph(SubSeq(remainingText, 1, MAX_CHUNK_SIZE)))
                  ELSE chunks
           /\ remainingText' =
                  trim(SubSeq(remainingText, breakPoint + 1, Len(remainingText)))
    /\ UNCHANGED <<content, cleaned, recleaned, atoms, pc>>
    /\ UNCHANGED <<urlVars, sendVars, guildVars, pinVars>>

\* the loop is left: the rest is pushed when it is not empty, and the list
\* is returned
CharacterRest ==
    /\ pc = "while"
    /\ Len(remainingText) <= MAX_CHUNK_SIZE
    /\ chunks' = IF Len(remainingText) > 0
                 THEN Append(chunks, Paragraph(remainingText))
                 ELSE chunks
    /\ pc' = "done"
    /\ UNCHANGED <<content, cleaned, recleaned, atoms, remainingText>>
    /\ UNCHANGED <<urlVars, sendVars, guildVars, pinVars>>

NextCharacters == CharacterIteration \/ CharacterRest

SpecCharacters ==
    InitCharacters /\ [][NextCharacters]_vars /\ WF_vars(NextCharacters)

\* the loop, run step by step, returns what the operator computes
CharacterLoopAgrees ==
    pc = "done" => chunks = splitByCharacterCount(Paragraph(content))

\* the boundaries of the claim: space, newline, sentence-ending character
CLAIMED_BOUNDARIES == {" ", "\n", ".", "!", "?"}

\* the boundary nearest to the ceiling within the last 30% of the ceiling
\* window, the ceiling itself when the window holds none
ClaimedCut(text) ==
    LET found == {i \in (BREAK_WINDOW_FLOOR + 1)..MAX_CHUNK_SIZE :
                      text[i + 1] \in CLAIMED_BOUNDARIES}
    IN  IF found = {} THEN MAX_CHUNK_SIZE ELSE MaxOf(found)

\* C25: while the remaining text exceeds the ceiling, the piece emitted by
\* an iteration is the text before the cut (without the whitespace at its
\* ends), the cut being made at the space, newline, '.', '!' or '?' nearest
\* to the ceiling within the last 30% of the ceiling window and exactly at
\* the ceiling when the window holds no such character.
C25_CutAtNearestBoundary ==
    [][(pc = "while" /\ Len(remainingText) > MAX_CHUNK_SIZE) =>
          LET before == trim(SubSeq(remainingText, 1, ClaimedCut(remainingText)))
          IN  chunks' = IF before # <<>> THEN Append(chunks, Paragraph(before))
                        ELSE chunks]_vars

\* C26: the hard character split terminates, every iteration strictly
\* shortens the remaining text, and every piece it returns is non-empty and
\* at most as long as the ceiling.
C26_CharacterSplitTerminates ==
    /\ <>(pc = "done")
    /\ [][Len(remainingText') < Len(remainingText)]_remainingText
    /\ [](\A i \in 1..Len(chunks) :
              /\ Len(chunks[i].content) > 0
              /\ Len(chunks[i].content) <= MAX_CHUNK_SIZE)

\* C26 witness: a text of more than twice the ceiling has been split into
\* three or more pieces, one of them cut at the ceiling for want of a
\* boundary and one cut at a boundary.
C26_Witness ==
    /\ pc = "done"
    /\ Len(content) > 2 * MAX_CHUNK_SIZE
    /\ Len(chunks) >= 3
    /\ \E i \in 1..Len(chunks) : Len(chunks[i].content) = MAX_CHUNK_SIZE
    /\ \E i \in 1..(Len(chunks) - 1) : Len(chunks[i].content) < MAX_CHUNK_SIZE

(***************************************************************************)
(* splitAndSendContent with a thread that may answer any text, also one    *)
(* within its limit, with the length error, as often as it likes.  Every   *)
(* call settles.  A retry nested in an identical retry sends the same      *)
(* text as the outer one and returns to it: the nesting depth of identical *)
(* frames of sendChunksToThread, and the repetition of an identical entry  *)
(* at the end of the log, are not recorded.                                *)
(***************************************************************************)
\* the thread rejects a text within its limit with the length error:
\* splitAndSendContent rethrows the error of sendSingleMessage, the catch
\* of sendChunksToThread splits the chunk by character count and calls
\* sendChunksToThread with the result
SendRejectedWithinLimit ==
    /\ pc = "await" /\ inFlight # <<>>
    /\ LET call == Head(inFlight)
           settled == Settled(call, "length")
       IN  /\ call.kind # "embed"
           /\ Len(call.content) <= TRANSPORT_LIMIT
           /\ log' = IF log # <<>> /\ log[Len(log)] = settled THEN log
                     ELSE Append(log, settled)
           /\ inFlight' = Tail(inFlight)
           /\ IF call.kind = "single"
              THEN /\ outcome' = "threw"
                   /\ pc' = "done"
                   /\ UNCHANGED stack
              ELSE /\ LET frame == [chunks |-> splitByCharacterCount(CurrentChunk),
                                    i |-> 1]
                      IN  stack' = IF Top = frame THEN stack
                                   ELSE Append(stack, frame)
                   /\ pc' = "loop"
                   /\ UNCHANGED outcome
    /\ UNCHANGED <<splitVars, urlVars, failures, guildVars>>
    /\ UNCHANGED <<charVars, pinVars>>

NextRetry == NextSend \/ SendRejectedWithinLimit

\* the documents sent to that thread: a short text, a code block with a
\* line longer than the ceiling, an image reference longer than the ceiling
RetryDocs == { <<"a", "b", ".">>, CODE_LONG, LONG_IMAGE }

InitRetry ==
    /\ content \in RetryDocs
    /\ cleaned = <<>>
    /\ recleaned = <<>>
    /\ atoms = <<>>
    /\ chunks = <<>>
    /\ pc = "start"
    /\ UrlIdle
    /\ SendIdle
    /\ GuildIdle
    /\ CharIdle /\ PinIdle

\* the steps that sanitize a text before they go on: the two branches of
\* splitAndSendContent, and the two branches of the loop body of
\* sendChunksToThread for a chunk that is no image
SanitizingStep ==
    \/ SendSingleMessage
    \/ SplitForSending
    \/ SendTextChunk
    \/ SplitOversizeChunk

\* one of them can always be taken where the program stands at such a branch
SanitizingStepReady ==
    \/ pc = "start"
    \/ /\ pc = "loop" /\ stack # <<>>
       /\ Top.i <= Len(Top.chunks)
       /\ CurrentChunk.type # "image"

\* the other steps of sendChunksToThread, and the answers of the thread
SettlingStep ==
    \/ SendImageChunk
    \/ LoopEnds
    \/ SendSucceeds
    \/ SendRejectedForLength
    \/ SendFails
    \/ SendRejectedWithinLimit

\* the event loop runs every continuation that is ready, and every call of
\* thread.send settles: weak fairness of both groups of steps, the one of
\* SanitizingStep written out with SanitizingStepReady for its ENABLED
SpecRetry ==
    /\ InitRetry /\ [][NextRetry]_vars
    /\ WF_vars(SettlingStep)
    /\ ([]<>(~SanitizingStepReady) \/ []<><<SanitizingStep>>_vars)

\* C27: delivery terminates, whatever the thread answers: splitAndSendContent
\* returns or throws after finitely many calls of thread.send.
C27_DeliveryTerminates == <>(outcome \in {"returned", "threw"})

(***************************************************************************)
(* Claims about the texts handed to the thread (checked under SpecSend).   *)
(***************************************************************************)
\* the calls of thread.send made so far: the settled ones and the pending one
CallsMade ==
    {[kind |-> log[k].kind, content |-> log[k].content] : k \in 1..Len(log)}
        \cup {[kind |-> inFlight[k].kind, content |-> inFlight[k].content] :
                 k \in 1..Len(inFlight)}

\* C28: no text longer than 2000 characters is handed to thread.send: not by
\* sendSingleMessage, not by sendChunksToThread, not as the text sent in
\* place of an image whose embed failed.
C28_NoOversizeTextSent ==
    \A call \in CallsMade :
        call.kind # "embed" => Len(call.content) <= MAX_CHUNK_SIZE

(***************************************************************************)
(* splitAndSendContent on documents whose code blocks are split by lines:  *)
(* the pieces keep the white space at their ends until they are sent.      *)
(***************************************************************************)
\* an indented line of code, longer than a piece may be
INDENTED_BODY == <<" ", " ">> \o BODY

\* a short text; a code block with a line of no-break spaces; the same
\* after an image; a code block with an indented line; the same with an
\* image and a line after it; a
\* text that the sanitizer makes longer than the ceiling; a code block with
\* a line longer than the ceiling; an image reference longer than the ceiling
ResendDocs ==
    { <<"a", "b", ".">>,
      HEAD \o NL \o BLANKS \o NL \o BODY,
      IMAGE \o NL \o HEAD \o NL \o BLANKS \o NL \o BODY,
      HEAD \o NL \o INDENTED_BODY,
      HEAD \o NL \o INDENTED_BODY \o NL \o IMAGE \o NL \o BODY,
      RULES,
      CODE_LONG,
      LONG_IMAGE }

InitResend ==
    /\ content \in ResendDocs
    /\ cleaned = <<>>
    /\ recleaned = <<>>
    /\ atoms = <<>>
    /\ chunks = <<>>
    /\ pc = "start"
    /\ UrlIdle /\ SendIdle /\ GuildIdle
    /\ CharIdle /\ PinIdle

SpecResend == InitResend /\ [][NextSend]_vars

\* sendChunksToThread, called by splitAndSendContent, is at a chunk of the
\* splitter that is no image and within the ceiling
AtSplitterTextChunk ==
    /\ pc = "loop" /\ Len(stack) = 1
    /\ Top.i <= Len(Top.chunks)
    /\ CurrentChunk.type # "image"
    /\ Len(CurrentChunk.content) <= MAX_CHUNK_SIZE

\* C29: the sanitization before the send leaves a chunk of the splitter
\* unchanged: the step taken for a chunk that is no image is a call of
\* thread.send whose text is the content of the chunk (so nothing is dropped
\* or altered, and a non-empty chunk is not sent as an empty message).
C29_SentTextIsChunkContent ==
    [][AtSplitterTextChunk =>
          /\ pc' = "await"
          /\ inFlight' = <<[kind |-> "text", content |-> CurrentChunk.content,
                            path |-> <<Top.i>>]>>]_vars

(***************************************************************************)
(* PinResponse.run: the handler of a pin reaction.  The messages pinned in *)
(* the channel are numbered from the oldest one; pinned holds the          *)
(* collection fetched by the handler, newest first, channelPins the        *)
(* messages that are pinned in the channel now.  Every call of the         *)
(* Discord API settles, with a result or with an error.                    *)
(***************************************************************************)
PIN_LIMIT == 50

\* reaction.message, which is none of the messages pinned before
ReactedMessage == 0

InitPin ==
    /\ channelPins \in {1..n : n \in 0..PIN_LIMIT}
    /\ pinned = <<>>
    /\ pc = "run"
    /\ content = <<>>
    /\ cleaned = <<>>
    /\ recleaned = <<>>
    /\ atoms = <<>>
    /\ chunks = <<>>
    /\ UrlIdle /\ SendIdle /\ GuildIdle
    /\ CharIdle

\* the collection returned by fetchPinned, the oldest message last
FetchedPins(pins) ==
    [k \in 1..Cardinality(pins) |-> Cardinality(pins) + 1 - k]

\* run is entered: in a guild text channel fetchPinned is called, in any
\* other channel the message is pinned at once
Run ==
    /\ pc = "run"
    /\ \E isGuildText \in BOOLEAN :
          pc' = IF isGuildText THEN "fetchPinned" ELSE "pin"
    /\ UNCHANGED <<splitVars, urlVars, sendVars, guildVars, charVars, pinVars>>

\* await fetchPinned() resolves
FetchPinnedResolves ==
    /\ pc = "fetchPinned"
    /\ pinned' = FetchedPins(channelPins)
    /\ pc' = "while"
    /\ UNCHANGED <<splitVars, urlVars, sendVars, guildVars, charVars, channelPins>>

\* while (pinned.size >= 50): the body calls pinned.last()?.unpin()
UnpinLast ==
    /\ pc = "while"
    /\ Len(pinned) >= PIN_LIMIT
    /\ pc' = "unpin"
    /\ UNCHANGED <<splitVars, urlVars, sendVars, guildVars, charVars, pinVars>>

\* the loop is left, or not entered: reaction.message.pin() is called
LoopExit ==
    /\ pc = "while"
    /\ Len(pinned) < PIN_LIMIT
    /\ pc' = "pin"
    /\ UNCHANGED <<splitVars, urlVars, sendVars, guildVars, charVars, pinVars>>

\* await unpin() resolves: the message is no longer pinned in the channel;
\* the collection held by the handler is the one that was fetched
UnpinResolves ==
    /\ pc = "unpin"
    /\ channelPins' = channelPins \ {pinned[Len(pinned)]}
    /\ pc' = "while"
    /\ UNCHANGED <<splitVars, urlVars, sendVars, guildVars, charVars, pinned>>

\* await pin() resolves: the channel has room for the message
PinResolves ==
    /\ pc = "pin"
    /\ Cardinality(channelPins) < PIN_LIMIT
    /\ channelPins' = channelPins \cup {ReactedMessage}
    /\ pc' = "done"
    /\ UNCHANGED <<splitVars, urlVars, sendVars, guildVars, charVars, pinned>>

\* one of the three calls rejects: the catch block reports the error and
\* run returns
CallRejects ==
    /\ pc \in {"fetchPinned", "unpin", "pin"}
    /\ pc' = "done"
    /\ UNCHANGED <<splitVars, urlVars, sendVars, guildVars, charVars, pinVars>>

NextPin ==
    \/ Run
    \/ FetchPinnedResolves
    \/ UnpinLast
    \/ LoopExit
    \/ UnpinResolves
    \/ PinResolves
    \/ CallRejects

\* the event loop runs every continuation that is ready, and every call
\* settles
SpecPin == InitPin /\ [][NextPin]_vars /\ WF_vars(NextPin)

\* C30: PinResponse.run terminates: with 50 or more pinned messages in the
\* guild text channel the handler leaves the unpin loop after finitely many
\* calls of unpin, pins the message and returns.
C30_PinTerminates ==
    (pc = "while" /\ Len(pinned) >= PIN_LIMIT) ~> (pc = "done")

====
